---------------------------- MODULE Spec2Model ----------------------------
(***************************************************************************)
(* Model of @uikit/rollup-config: createConfig (the descriptor assembler   *)
(* of tools/rollup/create-config.js) and the update-readme plugin's        *)
(* writeBundle hook (plugins/update-readme.js).                            *)
(*                                                                         *)
(* Text is modelled as a sequence of tokens.  A module specifier or a      *)
(* package name is a sequence of one-character strings.  A README is a     *)
(* sequence of tokens in which the two fixed badge prefixes, the heading   *)
(* marker "# " and the badge tails are single tokens.  A JavaScript value  *)
(* that may be undefined is a set with at most one element.                *)
(***************************************************************************)
EXTENDS Integers, Sequences, FiniteSets, TLC

VARIABLES
    options,    \* the options object handed to createConfig
    pkgFile,    \* <packageDir>/package.json as createConfig finds it
    tsFiles,    \* which tsconfig files exist under packageDir
    watchEnv,   \* process.env.ROLLUP_WATCH
    result,     \* outcome of the createConfig call
    fsLog,      \* filesystem calls made by createConfig, in order
    query,      \* the last call of the externality predicate
    readme,     \* <packageDir>/README.md
    run,        \* the last writeBundle run
    readme0,    \* README.md before the first run
    runs        \* number of writeBundle runs so far

vars == <<options, pkgFile, tsFiles, watchEnv, result, fsLog, query,
          readme, run, readme0, runs>>

cfgVars == <<options, pkgFile, tsFiles, watchEnv, result, fsLog, query>>

badgeVars == <<readme, run, readme0, runs>>

-----------------------------------------------------------------------------
(* Bounds of the model *)

MaxFormats == 2

MaxNameLen == 4

MaxIdLen == 3

MaxReadmeLen == 2

MaxRuns == 2

MaxChunks == 1

MaxKept == 0

-----------------------------------------------------------------------------
(* Generic helpers *)

RECURSIVE SeqsUpTo(_, _)
SeqsUpTo(S, n) ==
    IF n = 0 THEN {<<>>}
    ELSE LET shorter == SeqsUpTo(S, n - 1)
         IN  shorter \cup {Append(s, c) : s \in shorter, c \in S}

Defined(v) == {v}

Undefined == {}

Value(m) == CHOOSE v \in m : TRUE

\* String.prototype.startsWith
startsWith(s, p) ==
    /\ Len(p) <= Len(s)
    /\ SubSeq(s, 1, Len(p)) = p

\* Array.prototype.filter(Boolean) over build steps
FilterBoolean(steps) ==
    SelectSeq(steps, LAMBDA p : p \notin {"false", "null"})

\* path.resolve of a relative segment against a directory
resolve(dir, rel) == dir \o "/" \o rel

-----------------------------------------------------------------------------
(* create-config.js *)

Letters == {"a", "b", "c", "d"}

toUpperCase(c) ==
    CASE c = "a" -> "A"
      [] c = "b" -> "B"
      [] c = "c" -> "C"
      [] c = "d" -> "D"
      [] OTHER   -> c

\* str.replace(/[-_](.)/g, (_, c) => c.toUpperCase())
RECURSIVE ReplaceSeparators(_)
ReplaceSeparators(s) ==
    IF Len(s) < 2 THEN s
    ELSE IF s[1] \in {"-", "_"}
         THEN <<toUpperCase(s[2])>> \o ReplaceSeparators(SubSeq(s, 3, Len(s)))
         ELSE <<s[1]>> \o ReplaceSeparators(Tail(s))

\* str.replace(/^(.)/, (_, c) => c.toUpperCase())
UpperFirst(s) ==
    IF s = <<>> THEN s ELSE <<toUpperCase(s[1])>> \o Tail(s)

toPascalCase(str) == UpperFirst(ReplaceSeparators(str))

\* pkg.name.replace(/^@.*\//, ''): the greedy .* runs to the last '/'
StripScope(s) ==
    LET slashes == {j \in 2..Len(s) : s[j] = "/"}
    IN  IF s # <<>> /\ s[1] = "@" /\ slashes # {}
        THEN SubSeq(s, (CHOOSE j \in slashes : \A k \in slashes : k <= j) + 1,
                    Len(s))
        ELSE s

\* JavaScript truthiness of an optional string held as a native string
TruthyString(m) == m # Undefined /\ Value(m) # ""

\* JavaScript truthiness of an optional string held as a character sequence
TruthyText(m) == m # Undefined /\ Value(m) # <<>>

DefaultInput == "src/index.ts"

DefaultOutputDir == "dist"

DefaultFormats == <<"esm", "cjs">>

\* faulty variant: the manifest is read without the existence check
getPackageJsonUnchecked(packageDir, file) ==
    [threw |-> FALSE, error |-> "",
     log |-> <<[op |-> "readFileSync",
                path |-> resolve(packageDir, "package.json")]>>]

\* getPackageJson: existence probe, read, JSON.parse
getPackageJson(packageDir, file) ==
    LET pkgPath == resolve(packageDir, "package.json")
        probe == <<[op |-> "existsSync", path |-> pkgPath]>>
    IN  IF file.state = "absent"
        THEN [threw |-> TRUE, error |-> "package.json not found", log |-> probe]
        ELSE IF file.state = "malformed"
        THEN [threw |-> TRUE, error |-> "SyntaxError",
              log |-> Append(probe, [op |-> "readFileSync", path |-> pkgPath])]
        ELSE [threw |-> FALSE, error |-> "",
              log |-> Append(probe, [op |-> "readFileSync", path |-> pkgPath])]

\* getTsConfigPath: first existing of tsconfig.build.json, tsconfig.json
getTsConfigPath(packageDir, files) ==
    LET buildTsConfig == resolve(packageDir, "tsconfig.build.json")
        pkgTsConfig == resolve(packageDir, "tsconfig.json")
    IN  IF "tsconfig.build.json" \in files
        THEN [path |-> buildTsConfig,
              log |-> <<[op |-> "existsSync", path |-> buildTsConfig]>>]
        ELSE IF "tsconfig.json" \in files
        THEN [path |-> pkgTsConfig,
              log |-> <<[op |-> "existsSync", path |-> buildTsConfig],
                        [op |-> "existsSync", path |-> pkgTsConfig]>>]
        ELSE [path |-> resolve(packageDir, "../../tsconfig.json"),
              log |-> <<[op |-> "existsSync", path |-> buildTsConfig],
                        [op |-> "existsSync", path |-> pkgTsConfig]>>]

\* externalDeps: keys of dependencies, keys of peerDependencies, extra externals
externalDeps(pkg, additionalExternal) ==
    pkg.dependencies \o pkg.peerDependencies \o additionalExternal

\* /^[a-zA-Z]:/.test(id)
DriveLetter(id) ==
    /\ Len(id) >= 2
    /\ id[1] \in Letters
    /\ id[2] = ":"

\* faulty variant: a bare string-prefix test, without the '/' boundary
isExternalBarePrefix(deps, id) ==
    IF startsWith(id, <<".">>) \/ startsWith(id, <<"/">>) \/ DriveLetter(id)
    THEN FALSE
    ELSE \E i \in 1..Len(deps) : startsWith(id, deps[i])

\* the isExternal closure
isExternal(deps, id) ==
    IF startsWith(id, <<".">>) \/ startsWith(id, <<"/">>) \/ DriveLetter(id)
    THEN FALSE
    ELSE \E i \in 1..Len(deps) :
            id = deps[i] \/ startsWith(id, deps[i] \o <<"/">>)

\* basePlugins, after filter(Boolean)
basePlugins(enableBabel) ==
    FilterBoolean(<<"node-resolve", "commonjs", "json", "typescript",
                    IF enableBabel THEN "babel" ELSE "false">>)

minifyPlugin(minify) == IF minify THEN "terser" ELSE "null"

\* faulty variant: the badge updater is attached whatever the format
formatPluginsAnyFormat(format, opts, env) ==
    FilterBoolean(
        basePlugins(opts.babel)
        \o <<minifyPlugin(opts.minify), "filesize",
             IF ~TruthyString(env) THEN "update-readme" ELSE "false">>)

\* the plugins array of one per-format descriptor
formatPlugins(format, opts, env) ==
    FilterBoolean(
        basePlugins(opts.babel)
        \o <<minifyPlugin(opts.minify), "filesize",
             IF format \in {"esm", "es"} /\ ~TruthyString(env)
             THEN "update-readme" ELSE "false">>)

\* whether building the output of this format dereferences pkg.name
NeedsPkgName(format, opts) ==
    format \in {"umd", "iife"} /\ ~TruthyText(opts.name)

\* faulty variant: the umd/iife branch forgets to delete dir
outputConfigKeepsDir(format, opts, pkg, outputPath) ==
    LET base == [dir |-> outputPath,
                 format |-> format,
                 sourcemap |-> TRUE,
                 preserveModules |-> format # "umd" /\ format # "iife",
                 preserveModulesRoot |-> resolve(Value(opts.packageDir), "src"),
                 exports |-> "named"]
    IN  IF format \in {"esm", "es"}
        THEN base @@ [entryFileNames |-> "[name].mjs",
                      chunkFileNames |-> "[name]-[hash].mjs"]
        ELSE IF format = "cjs"
        THEN base @@ [entryFileNames |-> "[name].cjs",
                      chunkFileNames |-> "[name]-[hash].cjs"]
        ELSE IF format \in {"umd", "iife"}
        THEN [preserveModules |-> FALSE,
              entryFileNames |-> "undefined",
              chunkFileNames |-> "undefined",
              file |-> resolve(outputPath,
                               IF format = "umd" THEN "index.umd.js"
                               ELSE "index.iife.js"),
              name |-> IF TruthyText(opts.name) THEN Value(opts.name)
                       ELSE toPascalCase(StripScope(Value(pkg.name))),
              globals |-> "globals"]
             @@ base
        ELSE base

\* outputConfig of one format
outputConfig(format, opts, pkg, outputPath) ==
    LET base == [dir |-> outputPath,
                 format |-> format,
                 sourcemap |-> TRUE,
                 preserveModules |-> format # "umd" /\ format # "iife",
                 preserveModulesRoot |-> resolve(Value(opts.packageDir), "src"),
                 exports |-> "named"]
    IN  IF format \in {"esm", "es"}
        THEN base @@ [entryFileNames |-> "[name].mjs",
                      chunkFileNames |-> "[name]-[hash].mjs"]
        ELSE IF format = "cjs"
        THEN base @@ [entryFileNames |-> "[name].cjs",
                      chunkFileNames |-> "[name]-[hash].cjs"]
        ELSE IF format \in {"umd", "iife"}
        THEN [preserveModules |-> FALSE,
              entryFileNames |-> "undefined",
              chunkFileNames |-> "undefined",
              file |-> resolve(outputPath,
                               IF format = "umd" THEN "index.umd.js"
                               ELSE "index.iife.js"),
              name |-> IF TruthyText(opts.name) THEN Value(opts.name)
                       ELSE toPascalCase(StripScope(Value(pkg.name))),
              globals |-> "globals"]
             @@ [f \in (DOMAIN base) \ {"dir"} |-> base[f]]
        ELSE base

\* one element pushed by formats.forEach
formatDescriptor(format, opts, pkg, env, inputPath, outputPath) ==
    [input |-> inputPath,
     output |-> outputConfig(format, opts, pkg, outputPath),
     external |-> "isExternal",
     plugins |-> formatPlugins(format, opts, env)]

\* the descriptor pushed when generateDts is set
dtsDescriptor(inputPath, outputPath) ==
    [input |-> inputPath,
     output |-> [file |-> resolve(outputPath, "index.d.ts"), format |-> "esm"],
     external |-> "isExternal",
     plugins |-> <<"dts">>]

\* faulty variant: the declaration descriptor is pushed whatever the flag
dtsConfigsAlways(generateDts, inputPath, outputPath) ==
    <<dtsDescriptor(inputPath, outputPath)>>

\* the generateDts branch
dtsConfigs(generateDts, inputPath, outputPath) ==
    IF generateDts THEN <<dtsDescriptor(inputPath, outputPath)>> ELSE <<>>

Threw(error, log) ==
    [status |-> "threw", error |-> error, configs |-> <<>>,
     externalDeps |-> <<>>, log |-> log]

\* createConfig: the whole call, with its filesystem calls
createConfig(opts, file, ts, env) ==
    IF ~TruthyString(opts.packageDir)
    THEN Threw("packageDir is required", <<>>)
    ELSE
    LET packageDir == Value(opts.packageDir)
        got == getPackageJson(packageDir, file)
    IN  IF got.threw THEN Threw(got.error, got.log)
        ELSE
        LET pkg == file.json
            tsc == getTsConfigPath(packageDir, ts)
            log == got.log \o tsc.log
            inputPath == resolve(packageDir, DefaultInput)
            outputPath == resolve(packageDir, DefaultOutputDir)
            formats == opts.formats
        IN  IF \E i \in 1..Len(formats) :
                   NeedsPkgName(formats[i], opts) /\ pkg.name = Undefined
            THEN Threw("TypeError", log)
            ELSE [status |-> "returned",
                  error |-> "",
                  configs |->
                      [i \in 1..Len(formats) |->
                          formatDescriptor(formats[i], opts, pkg, env,
                                           inputPath, outputPath)]
                      \o dtsConfigs(opts.dts, inputPath, outputPath),
                  externalDeps |-> externalDeps(pkg, opts.external),
                  log |-> log]

Idle ==
    [status |-> "idle", error |-> "", configs |-> <<>>,
     externalDeps |-> <<>>, log |-> <<>>]

NoQuery == [asked |-> FALSE, id |-> <<>>, external |-> FALSE]

IdChars == {"a", "b", "c", "d", ".", "/", ":"}

Ids == SeqsUpTo(IdChars, MaxIdLen)

\* the caller loads the configuration: one createConfig call
CreateConfig ==
    /\ result.status = "idle"
    /\ LET r == createConfig(options, pkgFile, tsFiles, watchEnv)
       IN  /\ result' = [status |-> r.status, error |-> r.error,
                         configs |-> r.configs, externalDeps |-> r.externalDeps]
           /\ fsLog' = r.log
    /\ UNCHANGED <<options, pkgFile, tsFiles, watchEnv, query>>
    /\ UNCHANGED badgeVars

\* the bundler asks the externality predicate of a returned descriptor
IsExternalCall ==
    /\ result.status = "returned"
    /\ ~query.asked
    /\ \E id \in Ids :
          query' = [asked |-> TRUE, id |-> id,
                    external |-> isExternal(result.externalDeps, id)]
    /\ UNCHANGED <<options, pkgFile, tsFiles, watchEnv, result, fsLog>>
    /\ UNCHANGED badgeVars

-----------------------------------------------------------------------------
(* plugins/update-readme.js *)

VersionPrefix == "![version](https://img.shields.io/badge/Version-"

SizePrefix == "![minzipped size](https://img.shields.io/badge/minzipped%20size-"

\* `![version](https://img.shields.io/badge/Version-${version}-blue)`
versionBadge(version) == <<VersionPrefix, version, "-blue", ")">>

\* `![minzipped size](https://img.shields.io/badge/minzipped%20size-${sizeStr}-success)`
sizeBadge(sizeStr) == <<SizePrefix, sizeStr, "-success", ")">>

Min(S) == CHOOSE i \in S : \A k \in S : i <= k

\* first match of /<prefix>[^)]+\)/: the prefix, one or more tokens other
\* than ')', then ')'
RegexMatch(content, prefix) ==
    LET n == Len(content)
        starts == {i \in 1..(n - 2) :
                     /\ content[i] = prefix
                     /\ content[i + 1] # ")"
                     /\ \E j \in (i + 2)..n : content[j] = ")"}
    IN  IF starts = {} THEN [found |-> FALSE, from |-> 0, to |-> 0]
        ELSE LET i == Min(starts)
             IN  [found |-> TRUE, from |-> i,
                  to |-> Min({j \in (i + 2)..n : content[j] = ")"})]

\* content.replace(regex, badge): the first match is replaced
RegexReplace(content, m, badge) ==
    SubSeq(content, 1, m.from - 1) \o badge
    \o SubSeq(content, m.to + 1, Len(content))

\* content.split(/\r?\n/)
RECURSIVE SplitLines(_, _)
SplitLines(s, cur) ==
    IF s = <<>> THEN <<cur>>
    ELSE IF s[1] = "\n" THEN <<cur>> \o SplitLines(Tail(s), <<>>)
    ELSE IF s[1] = "\r" /\ Len(s) >= 2 /\ s[2] = "\n"
         THEN <<cur>> \o SplitLines(SubSeq(s, 3, Len(s)), <<>>)
    ELSE SplitLines(Tail(s), Append(cur, s[1]))

\* lines.join('\n')
RECURSIVE JoinLines(_)
JoinLines(lines) ==
    IF Len(lines) = 0 THEN <<>>
    ELSE IF Len(lines) = 1 THEN lines[1]
    ELSE lines[1] \o <<"\n">> \o JoinLines(Tail(lines))

\* lines.findIndex((line) => line.startsWith('# ')), 1-based, 0 when none
TitleIndex(lines) ==
    LET titles == {i \in 1..Len(lines) : startsWith(lines[i], <<"# ">>)}
    IN  IF titles = {} THEN 0 ELSE Min(titles)

\* content.indexOf(badge), 1-based, 0 when absent
IndexOf(content, badge) ==
    LET at == {i \in 1..(Len(content) - Len(badge) + 1) :
                 SubSeq(content, i, i + Len(badge) - 1) = badge}
    IN  IF at = {} THEN 0 ELSE Min(at)

\* the "Update Version" block
updateVersion(content, vBadge) ==
    LET m == RegexMatch(content, VersionPrefix)
    IN  IF m.found THEN RegexReplace(content, m, vBadge)
        ELSE LET lines == SplitLines(content, <<>>)
                 t == TitleIndex(lines)
             IN  IF t # 0
                 THEN JoinLines(SubSeq(lines, 1, t) \o <<(<<"\n">> \o vBadge)>>
                                \o SubSeq(lines, t + 1, Len(lines)))
                 ELSE JoinLines(<<(vBadge \o <<"\n">>)>> \o lines)

\* faulty variant: a missing size badge is never inserted
updateSizeReplaceOnly(content, vBadge, sBadge) ==
    LET m == RegexMatch(content, SizePrefix)
    IN  IF m.found THEN RegexReplace(content, m, sBadge) ELSE content

\* the "Update Size" block
updateSize(content, vBadge, sBadge) ==
    LET m == RegexMatch(content, SizePrefix)
    IN  IF m.found THEN RegexReplace(content, m, sBadge)
        ELSE LET v == IndexOf(content, vBadge)
             IN  IF v # 0
                 THEN SubSeq(content, 1, v + Len(vBadge) - 1)
                      \o <<" ">> \o sBadge
                      \o SubSeq(content, v + Len(vBadge), Len(content))
                 ELSE content

\* `${pkg.version}` inside the template literal
VersionText(version) ==
    IF version = Undefined THEN "undefined" ELSE Value(version)

\* sum of the gzip lengths of the entries of type 'chunk'
RECURSIVE bundleSize(_)
bundleSize(bundle) ==
    IF bundle = <<>> THEN 0
    ELSE (IF bundle[1].type = "chunk" THEN bundle[1].gzip ELSE 0)
         + bundleSize(Tail(bundle))

\* (size / 1024).toFixed(2) + 'kB'
sizeStr(size) ==
    LET h == (size * 100 + 512) \div 1024
        frac == h % 100
    IN  ToString(h \div 100) \o "."
        \o (IF frac < 10 THEN "0" ELSE "") \o ToString(frac) \o "kB"

\* faulty variant: only the manifest is checked before the try block
filesPresentManifestOnly(rd, pkg) == pkg.state # "absent"

\* existsSync(readmePath) && existsSync(pkgPath)
filesPresent(rd, pkg) == rd.exists /\ pkg.state # "absent"

Completion(raised, stage, reads, writes, file, version, size) ==
    [raised |-> raised, stage |-> stage, reads |-> reads, writes |-> writes,
     readme |-> file, version |-> version, sizeStr |-> size]

\* the try block: read and parse the manifest, gzip the chunks, read the
\* README, patch both badges, write the README
tryBlock(rd, sc) ==
    IF sc.fault = "readPkg"
    THEN Completion(TRUE, "readPkg", <<>>, <<>>, rd, "", "")
    ELSE IF sc.pkg.state = "malformed"
    THEN Completion(TRUE, "parse", <<"package.json">>, <<>>, rd, "", "")
    ELSE IF sc.fault = "gzip" /\ \E i \in 1..Len(sc.bundle) :
                                    sc.bundle[i].type = "chunk"
    THEN Completion(TRUE, "gzip", <<"package.json">>, <<>>, rd, "", "")
    ELSE IF sc.fault = "readReadme" \/ ~rd.exists
    THEN Completion(TRUE, "readReadme", <<"package.json">>, <<>>, rd, "", "")
    ELSE
    LET version == VersionText(sc.pkg.version)
        size == sizeStr(bundleSize(sc.bundle))
        vBadge == versionBadge(version)
        content == updateSize(updateVersion(rd.content, vBadge), vBadge,
                              sizeBadge(size))
        reads == <<"package.json", "README.md">>
    IN  IF sc.fault = "writeOpen"
        THEN Completion(TRUE, "writeOpen", reads, <<>>, rd, "", "")
        ELSE IF sc.fault = "writeTorn"
        THEN Completion(TRUE, "writeTorn", reads, <<"README.md">>,
                        [exists |-> TRUE,
                         content |-> SubSeq(content, 1, sc.kept)], "", "")
        ELSE Completion(FALSE, "done", reads, <<"README.md">>,
                        [exists |-> TRUE, content |-> content], version, size)

\* faulty variant: no catch clause around the body
catchRethrow(c) == c @@ [propagated |-> c.raised, logged |-> FALSE]

\* catch (e) { console.error(...) }
catch(c) == c @@ [propagated |-> FALSE, logged |-> c.raised]

\* writeBundle: the whole hook
writeBundle(rd, sc) ==
    IF ~filesPresent(rd, sc.pkg)
    THEN Completion(FALSE, "return", <<>>, <<>>, rd, "", "")
         @@ [propagated |-> FALSE, logged |-> FALSE]
    ELSE catch(tryBlock(rd, sc))

NoRun ==
    [done |-> FALSE, stage |-> "", propagated |-> FALSE, logged |-> FALSE,
     reads |-> <<>>, writes |-> <<>>, before |-> [exists |-> FALSE, content |-> <<>>],
     pkg |-> "", version |-> "", sizeStr |-> "", repeat |-> FALSE,
     streak |-> 0]

Versions == {Defined("1.0.0"), Defined("1.1.0")}

ChunkKinds == {[type |-> "chunk", gzip |-> 20], [type |-> "asset", gzip |-> 20]}

Bundles == SeqsUpTo(ChunkKinds, MaxChunks)

OneChunk == <<[type |-> "chunk", gzip |-> 20]>>

Scenario(pkg, bundle, fault, kept) ==
    [pkg |-> pkg, bundle |-> bundle, fault |-> fault, kept |-> kept]

\* what a run meets: the manifest at that moment, the emitted bundle and
\* the I/O fault, if any, that strikes during the run
Scenarios ==
    {Scenario([state |-> "valid", version |-> v], b, "none", 0) :
        v \in Versions, b \in Bundles}
    \cup {Scenario([state |-> s, version |-> Undefined], <<>>, "none", 0) :
            s \in {"absent", "malformed"}}
    \cup {Scenario([state |-> "valid", version |-> Defined("1.0.0")], OneChunk, f, 0) :
            f \in {"readPkg", "gzip", "readReadme", "writeOpen"}}
    \cup {Scenario([state |-> "valid", version |-> Defined("1.0.0")], OneChunk,
                   "writeTorn", k) : k \in 0..MaxKept}

\* the bundler calls the hook after writing the bundle
WriteBundle ==
    /\ runs < MaxRuns
    /\ \E sc \in Scenarios :
          LET c == writeBundle(readme, sc)
          IN  /\ readme' = c.readme
              /\ run' = [done |-> TRUE, stage |-> c.stage,
                         propagated |-> c.propagated, logged |-> c.logged,
                         reads |-> c.reads, writes |-> c.writes,
                         before |-> readme, pkg |-> sc.pkg.state,
                         version |-> c.version, sizeStr |-> c.sizeStr,
                         repeat |-> /\ run.done /\ run.stage = "done"
                                    /\ c.stage = "done"
                                    /\ run.version = c.version
                                    /\ run.sizeStr = c.sizeStr,
                         streak |-> IF c.stage = "done" THEN run.streak + 1
                                    ELSE 0]
    /\ runs' = runs + 1
    /\ UNCHANGED readme0
    /\ UNCHANGED cfgVars

ReadmeTokens == {VersionPrefix, SizePrefix, ")", "# ", "\n", "x"}

ReadmeFiles ==
    {[exists |-> FALSE, content |-> <<>>]}
    \cup {[exists |-> TRUE, content |-> c] : c \in SeqsUpTo(ReadmeTokens, MaxReadmeLen)}


-----------------------------------------------------------------------------
(* Inputs of createConfig *)

Formats == {"esm", "es", "cjs", "umd", "iife"}

PackageDirs == {Undefined, Defined(""), Defined("/pkg")}

WatchEnvs == {Undefined, Defined(""), Defined("true")}

TsFileSets == {{}, {"tsconfig.json"}, {"tsconfig.build.json", "tsconfig.json"}}

Manifest(name, deps, peers) ==
    [state |-> "valid",
     json |-> [name |-> name, dependencies |-> deps, peerDependencies |-> peers]]

NoManifest(state) ==
    [state |-> state,
     json |-> [name |-> Undefined, dependencies |-> <<>>,
               peerDependencies |-> <<>>]]

Options(packageDir, formats, generateDts, minify, enableBabel, external, name) ==
    [packageDir |-> packageDir, formats |-> formats, dts |-> generateDts,
     minify |-> minify, babel |-> enableBabel, external |-> external,
     name |-> name]

BadgeIdle ==
    /\ readme = [exists |-> FALSE, content |-> <<>>]
    /\ readme0 = readme
    /\ run = NoRun
    /\ runs = 0

CfgIdle ==
    /\ result = Idle
    /\ fsLog = <<>>
    /\ query = NoQuery

\* descriptor assembly over formats, flags, manifest states and environment
InitCfg ==
    /\ options \in
         {Options(d, f, g, m, b, <<>>, n) :
            d \in PackageDirs, f \in SeqsUpTo(Formats, MaxFormats),
            g \in BOOLEAN, m \in BOOLEAN, b \in BOOLEAN,
            n \in {Undefined, Defined(<<>>), Defined(<<"L">>)}}
    /\ pkgFile \in {NoManifest("absent"), NoManifest("malformed"),
                     Manifest(Undefined, <<>>, <<>>),
                     Manifest(Defined(<<"@", "a", "/", "b", "-", "c">>), <<>>, <<>>)}
    /\ tsFiles \in TsFileSets
    /\ watchEnv \in WatchEnvs
    /\ CfgIdle
    /\ BadgeIdle

NextCfg == CreateConfig

SpecCfg == InitCfg /\ [][NextCfg]_vars

NameChars == {"@", "/", "-", "_", "a"}

\* global-name derivation over package names
InitName ==
    /\ options \in
         {Options(Defined("/pkg"), <<f>>, FALSE, TRUE, TRUE, <<>>, n) :
            f \in {"esm", "umd", "iife"},
            n \in {Undefined, Defined(<<>>), Defined(<<"L">>)}}
    /\ pkgFile \in {Manifest(n, <<>>, <<>>) :
                       n \in {Undefined}
                             \cup {Defined(s) : s \in SeqsUpTo(NameChars, MaxNameLen)}}
    /\ tsFiles = {}
    /\ watchEnv = Undefined
    /\ CfgIdle
    /\ BadgeIdle

SpecName == InitName /\ [][NextCfg]_vars

ExtraExternals ==
    {<<"c">>, <<"a", "b">>, <<".", "/", "a">>, <<"/", "a">>, <<"a", ":">>,
     <<"a", "/", "b">>, <<>>}

\* externality over manifests, caller externals and specifiers
InitExt ==
    /\ options \in
         {Options(Defined("/pkg"), DefaultFormats, TRUE, TRUE, TRUE, e, Undefined) :
            e \in SeqsUpTo(ExtraExternals, 1)}
    /\ pkgFile \in {Manifest(Defined(<<"a">>), d, p) :
                       d \in SeqsUpTo({<<"a">>}, 1), p \in SeqsUpTo({<<"b">>}, 1)}
    /\ tsFiles = {}
    /\ watchEnv = Undefined
    /\ CfgIdle
    /\ BadgeIdle

NextExt == CreateConfig \/ IsExternalCall

SpecExt == InitExt /\ [][NextExt]_vars

\* badge updates over README contents, manifests, bundles and I/O faults
InitBadge ==
    /\ readme \in ReadmeFiles
    /\ readme0 = readme
    /\ run = NoRun
    /\ runs = 0
    /\ options = Options(Defined("/pkg"), DefaultFormats, TRUE, TRUE, TRUE, <<>>,
                         Undefined)
    /\ pkgFile = NoManifest("absent")
    /\ tsFiles = {}
    /\ watchEnv = Undefined
    /\ CfgIdle

NextBadge == WriteBundle

SpecBadge == InitBadge /\ [][NextBadge]_vars

-----------------------------------------------------------------------------
(* Properties of createConfig *)

Rooted(id) ==
    \/ id # <<>> /\ id[1] \in {".", "/"}
    \/ Len(id) >= 2 /\ id[1] \in {"a", "b", "c", "d"} /\ id[2] = ":"

EntrySet ==
    {pkgFile.json.dependencies[i] : i \in DOMAIN pkgFile.json.dependencies}
    \cup {pkgFile.json.peerDependencies[i] :
             i \in DOMAIN pkgFile.json.peerDependencies}
    \cup {options.external[i] : i \in DOMAIN options.external}

SubPathOf(id, e) ==
    /\ Len(id) > Len(e)
    /\ \A k \in 1..Len(e) : id[k] = e[k]
    /\ id[Len(e) + 1] = "/"

\* C1: a specifier is classified external iff it is not relative, absolute
\* or drive-letter rooted and it equals, or is a sub-path of, some entry of
\* dependencies, peerDependencies or the caller's externals.  With
\* dependencies {a}, peerDependencies {b}, externals [c]: a, a/b, b, c are
\* external and ./a, /a, d are bundled.  A rooted specifier is bundled even
\* when listed itself, and a bare string prefix (ab against a) is bundled.
C1_Externality ==
    query.asked =>
        /\ query.external <=>
              /\ ~Rooted(query.id)
              /\ \E e \in EntrySet : query.id = e \/ SubPathOf(query.id, e)
        /\ (/\ pkgFile.json.dependencies = <<(<<"a">>)>>
            /\ pkgFile.json.peerDependencies = <<(<<"b">>)>>
            /\ options.external = <<(<<"c">>)>>)
           => /\ query.id \in {<<"a">>, <<"a", "/", "b">>, <<"b">>, <<"c">>}
                   => query.external
              /\ query.id \in {<<".", "/", "a">>, <<"/", "a">>, <<"d">>}
                   => ~query.external
        /\ (query.id \in EntrySet /\ Rooted(query.id)) => ~query.external
        /\ (query.id = <<"a", "b">> /\ EntrySet = {<<"a">>}) => ~query.external

C1_Witness ==
    /\ query.asked
    /\ query.id = <<"a", "/", "b">>
    /\ query.external
    /\ EntrySet = {<<"a">>}

DtsCount == IF options.dts THEN 1 ELSE 0

\* C2: a successful createConfig returns |formats| + (1 if dts) descriptors,
\* the i-th of format formats[i], the declaration descriptor last when dts
\* is requested and absent otherwise; the defaults give esm, cjs, dts.
C2_DescriptorList ==
    result.status = "returned" =>
        LET F == options.formats
            C == result.configs
        IN  /\ Len(C) = Len(F) + DtsCount
            /\ \A i \in 1..Len(F) :
                  C[i].output.format = F[i] /\ C[i].plugins # <<"dts">>
            /\ options.dts => C[Len(C)].plugins = <<"dts">>
            /\ ~options.dts => \A i \in 1..Len(C) : C[i].plugins # <<"dts">>
            /\ (F = <<"esm", "cjs">> /\ options.dts) =>
                  /\ Len(C) = 3
                  /\ C[1].output.format = "esm"
                  /\ C[2].output.format = "cjs"
                  /\ C[3].output.file = "/pkg/dist/index.d.ts"

C2_Witness ==
    /\ result.status = "returned"
    /\ options.formats = <<"esm", "cjs">>
    /\ options.dts
    /\ Len(result.configs) = 3

\* C3: createConfig throws, returning no descriptor list, when packageDir
\* is missing or no package.json exists under it; a missing packageDir is
\* reported as 'packageDir is required' before any filesystem call.
C3_ConfigurationError ==
    result.status # "idle" =>
        /\ options.packageDir \in {Undefined, Defined("")} =>
              /\ result.status = "threw"
              /\ result.error = "packageDir is required"
              /\ result.configs = <<>>
              /\ fsLog = <<>>
        /\ (options.packageDir = Defined("/pkg") /\ pkgFile.state = "absent") =>
              /\ result.status = "threw"
              /\ result.error = "package.json not found"
              /\ result.configs = <<>>
              /\ \A k \in 1..Len(fsLog) : fsLog[k].op = "existsSync"

C3_Witness ==
    /\ result.status = "threw"
    /\ result.error = "package.json not found"
    /\ options.formats = <<"esm", "cjs">>
    /\ fsLog = <<[op |-> "existsSync", path |-> "/pkg/package.json"]>>

\* the derivation rule as the specification words it
RECURSIVE PascalRule(_, _)
PascalRule(s, up) ==
    IF s = <<>> THEN <<>>
    ELSE IF s[1] \in {"-", "_"} THEN PascalRule(Tail(s), TRUE)
    ELSE <<IF up THEN toUpperCase(s[1]) ELSE s[1]>> \o PascalRule(Tail(s), FALSE)

LeadingScopeStripped(s) ==
    LET slashes == {j \in 2..Len(s) : s[j] = "/"}
    IN  IF s # <<>> /\ s[1] = "@" /\ slashes # {}
        THEN SubSeq(s, (CHOOSE j \in slashes : \A k \in slashes : j <= k) + 1,
                    Len(s))
        ELSE s

\* C4: the global name of every umd or iife descriptor is the caller's name
\* when given, else the PascalCase derivation of the package name: leading
\* '@scope/' stripped, first letter and each letter after '-' or '_'
\* uppercased, separators removed, for every package name.
C4_GlobalName ==
    result.status = "returned" =>
        \A i \in 1..Len(options.formats) :
            options.formats[i] \in {"umd", "iife"} =>
                result.configs[i].output.name =
                    IF options.name \notin {Undefined, Defined(<<>>)}
                    THEN Value(options.name)
                    ELSE PascalRule(LeadingScopeStripped(Value(pkgFile.json.name)),
                                    TRUE)

WatchMode == watchEnv \notin {Undefined, Defined("")}

\* C8: the badge updater is attached to a per-format descriptor iff its
\* format is esm or es and watch mode is off; never to the declaration
\* descriptor; when attached it is the last step, right after filesize.
C8_UpdaterAttachment ==
    result.status = "returned" =>
        LET F == options.formats
            C == result.configs
            Has(P) == \E k \in 1..Len(P) : P[k] = "update-readme"
        IN  /\ \A i \in 1..Len(F) :
                  LET P == C[i].plugins
                  IN  /\ Has(P) <=> (F[i] \in {"esm", "es"} /\ ~WatchMode)
                      /\ Has(P) =>
                            /\ P[Len(P)] = "update-readme"
                            /\ P[Len(P) - 1] = "filesize"
                            /\ \A k \in 1..(Len(P) - 1) : P[k] # "update-readme"
            /\ \A i \in (Len(F) + 1)..Len(C) : ~Has(C[i].plugins)

C8_Witness ==
    /\ result.status = "returned"
    /\ options.formats = <<"es", "umd">>
    /\ options.dts
    /\ watchEnv = Undefined
    /\ result.configs[1].plugins[Len(result.configs[1].plugins)] = "update-readme"

\* C10: every per-format descriptor has exactly one output location: esm/es
\* and cjs a directory with preserveModules and the .mjs / .cjs patterns,
\* umd and iife a single file index.umd.js / index.iife.js with
\* preserveModules off; no descriptor has both dir and file, none neither.
C10_OutputLocation ==
    result.status = "returned" =>
        LET F == options.formats
            C == result.configs
        IN  /\ \A i \in 1..Len(F) :
                  LET o == C[i].output
                      keys == DOMAIN o
                  IN  /\ F[i] \in {"esm", "es"} =>
                            /\ "dir" \in keys /\ "file" \notin keys
                            /\ o.dir = "/pkg/dist"
                            /\ o.preserveModules
                            /\ o.entryFileNames = "[name].mjs"
                            /\ o.chunkFileNames = "[name]-[hash].mjs"
                      /\ F[i] = "cjs" =>
                            /\ "dir" \in keys /\ "file" \notin keys
                            /\ o.dir = "/pkg/dist"
                            /\ o.preserveModules
                            /\ o.entryFileNames = "[name].cjs"
                            /\ o.chunkFileNames = "[name]-[hash].cjs"
                      /\ F[i] = "umd" =>
                            /\ "file" \in keys /\ "dir" \notin keys
                            /\ o.file = "/pkg/dist/index.umd.js"
                            /\ ~o.preserveModules
                      /\ F[i] = "iife" =>
                            /\ "file" \in keys /\ "dir" \notin keys
                            /\ o.file = "/pkg/dist/index.iife.js"
                            /\ ~o.preserveModules
            /\ \A i \in 1..Len(C) :
                  ("dir" \in DOMAIN C[i].output) # ("file" \in DOMAIN C[i].output)

C10_Witness ==
    /\ result.status = "returned"
    /\ options.formats = <<"cjs", "iife">>
    /\ "file" \in DOMAIN result.configs[2].output
    /\ "dir" \in DOMAIN result.configs[1].output

-----------------------------------------------------------------------------
(* Properties of the badge updater *)

\* number of non-overlapping matches of a badge pattern
RECURSIVE BadgeCount(_, _)
BadgeCount(content, prefix) ==
    LET m == RegexMatch(content, prefix)
    IN  IF ~m.found THEN 0
        ELSE 1 + BadgeCount(SubSeq(content, m.to + 1, Len(content)), prefix)

NoBadges(file) ==
    /\ file.exists
    /\ BadgeCount(file.content, VersionPrefix) = 0
    /\ BadgeCount(file.content, SizePrefix) = 0

Failed == run.done /\ run.stage \notin {"done", "return"}

\* C5: from a README with no version badge and no size badge, after n >= 1
\* successive successful runs the README holds exactly one version badge and
\* exactly one size badge, and a run repeating the previous run's version
\* and size leaves the README as that run left it.
C5_OneBadgeEach ==
    (NoBadges(readme0) /\ runs >= 1 /\ run.streak = runs) =>
        /\ BadgeCount(readme.content, VersionPrefix) = 1
        /\ BadgeCount(readme.content, SizePrefix) = 1
        /\ run.repeat => readme = run.before

\* C6: with README.md or package.json absent a run returns without
\* throwing, reads no file, writes no file and creates no README.
C6_MissingFileNoOp ==
    (run.done /\ (~run.before.exists \/ run.pkg = "absent")) =>
        /\ run.stage = "return"
        /\ ~run.propagated
        /\ ~run.logged
        /\ run.reads = <<>>
        /\ run.writes = <<>>
        /\ readme = run.before

C6_Witness ==
    /\ run.done
    /\ ~run.before.exists
    /\ run.pkg = "valid"
    /\ ~readme.exists

\* C7 as claimed: any failure once both files exist is caught and logged,
\* never propagated, and leaves the README exactly as it was.
C7_FailureLeavesReadme ==
    Failed =>
        /\ ~run.propagated
        /\ run.logged
        /\ readme = run.before

\* C7 amended: any failure once both files exist is caught and logged and
\* never propagated; a failure before writeFileSync has opened the README
\* (reading, parsing, gzip, opening for write) writes nothing and leaves the
\* README exactly as it was.
C7_FailureCaught ==
    Failed =>
        /\ ~run.propagated
        /\ run.logged
        /\ run.stage # "writeTorn" => (run.writes = <<>> /\ readme = run.before)

C7_Witness ==
    /\ Failed
    /\ run.stage = "gzip"
    /\ run.logged
    /\ readme.content # <<>>
    /\ readme = run.before

\* C9 as claimed: a successful run on a README with neither badge leaves the
\* README without a size badge.
C9_SizeBadgeSkipped ==
    (run.done /\ run.stage = "done" /\ NoBadges(run.before)) =>
        BadgeCount(readme.content, SizePrefix) = 0

\* C9 amended: a successful run on a README with neither badge does not skip
\* the size badge: after the run the README holds exactly one size badge,
\* that of the run.
C9_SizeBadgeInserted ==
    (run.done /\ run.stage = "done" /\ NoBadges(run.before)) =>
        /\ BadgeCount(readme.content, SizePrefix) = 1
        /\ IndexOf(readme.content, sizeBadge(run.sizeStr)) # 0

C9_Witness ==
    /\ run.done
    /\ run.stage = "done"
    /\ run.before.content = <<"# ", "x">>
    /\ readme.content =
         <<"# ", "x", "\n", "\n">> \o versionBadge("1.0.0") \o <<" ">>
         \o sizeBadge("0.02kB")

=============================================================================
